---------------------------- MODULE Spec2Model ----------------------------
(***************************************************************************)
(* State-machine model of src/webapp/app.py: the FastAPI facade over the   *)
(* Sharp Gaussian-splat predictor.  The state is the module's globals      *)
(* (predictor, device, gaussian_storage, ply_storage), the machine the     *)
(* process runs on (torch.cuda / torch.backends.mps availability, the PLY  *)
(* files in the temp directory), and the position of each in-flight upload *)
(* coroutine.  External library calls (decoding, inference, rendering,     *)
(* export) are black boxes that either return or raise; which one is an    *)
(* input of the action.  Objects a call creates (the Gaussians tuple, the   *)
(* temp file name) are identified by the ordinal of the uuid4() call that  *)
(* precedes them in the same upload.                                       *)
(***************************************************************************)
EXTENDS Integers, Sequences, FiniteSets

VARIABLES
    predictor,          \* global predictor: None or the loaded model
    device,             \* global device: None, "cuda", "mps" or "cpu"
    cuda,               \* torch.cuda.is_available() on this machine
    mps,                \* torch.backends.mps.is_available() on this machine
    startup,            \* "pending", "ok", or "failed" (load_model raised: process exits)
    gaussian_storage,   \* dict session id -> (gaussians, metadata)
    ply_storage,        \* dict session id -> PLY file path
    issued,             \* number of session ids uuid.uuid4() has produced so far
    disk,               \* PLY temp files that exist on disk
    pc,                 \* per upload coroutine: "idle" or "reading" (at await file.read())
    uploads,            \* history: one record per finished upload that drew a session id
    last                \* the response of the request handled last

vars == <<predictor, device, cuda, mps, startup, gaussian_storage, ply_storage,
          issued, disk, pc, uploads, last>>

\* ------------------------------------------------------------------ bounds

MaxUploads  == 3        \* uploads that draw a session id
MaxInflight == 2        \* upload coroutines that can be suspended at once

None    == "None"
Ids     == 1 .. MaxUploads           \* session ids; 0 stands for "no session id"
Reqs    == 1 .. MaxInflight
Paths   == 1 .. MaxUploads           \* PLY temp file names; 0 stands for "no file"

\* ------------------------------------------------------- pure functions

\* get_device(): preference order cuda > mps > cpu.
get_device(cudaAvail, mpsAvail) ==
    IF cudaAvail THEN "cuda" ELSE IF mpsAvail THEN "mps" ELSE "cpu"

\* The outcomes of the checkpoint download and of building the predictor.
LoadOutcomes == {"ok", "download_fail", "build_fail"}

\* load_model without its early return (lines 71-72 dropped).
load_model_reload(pred, dev, cudaAvail, mpsAvail, outcome) ==
    IF outcome = "download_fail" THEN
         [predictor |-> pred, device |-> get_device(cudaAvail, mpsAvail),
          downloaded |-> FALSE, raised |-> TRUE]
    ELSE IF outcome = "build_fail" THEN
         [predictor |-> pred, device |-> get_device(cudaAvail, mpsAvail),
          downloaded |-> TRUE, raised |-> TRUE]
    ELSE [predictor |-> "model", device |-> get_device(cudaAvail, mpsAvail),
          downloaded |-> TRUE, raised |-> FALSE]

\* load_model(): the new globals, whether a checkpoint was downloaded and
\* whether the call raised.
load_model(pred, dev, cudaAvail, mpsAvail, outcome) ==
    IF pred # None THEN
         [predictor |-> pred, device |-> dev, downloaded |-> FALSE, raised |-> FALSE]
    ELSE IF outcome = "download_fail" THEN
         [predictor |-> pred, device |-> get_device(cudaAvail, mpsAvail),
          downloaded |-> FALSE, raised |-> TRUE]
    ELSE IF outcome = "build_fail" THEN
         [predictor |-> pred, device |-> get_device(cudaAvail, mpsAvail),
          downloaded |-> TRUE, raised |-> TRUE]
    ELSE [predictor |-> "model", device |-> get_device(cudaAvail, mpsAvail),
          downloaded |-> TRUE, raised |-> FALSE]

\* check_system reporting "an accelerator is available" instead of CUDA.
check_system_accel(cudaAvail, mpsAvail, dev) ==
    [cuda_available |-> cudaAvail \/ mpsAvail,
     device |-> IF dev # None THEN dev ELSE "unknown"]

\* check_system(): the JSON body of GET /api/check.
check_system(cudaAvail, mpsAvail, dev) ==
    [cuda_available |-> cudaAvail,
     device |-> IF dev # None THEN dev ELSE "unknown"]

\* get_ply without the existence check of lines 125-126.
get_ply_nocheck(sid, ps, files) ==
    IF sid \notin DOMAIN ps THEN 404 ELSE 200

\* get_ply(): the HTTP status of GET /api/ply/{session_id}.
get_ply(sid, ps, files) ==
    IF sid \notin DOMAIN ps THEN 404
    ELSE IF ps[sid] \notin files THEN 404
    ELSE 200

\* The places where the upload pipeline can raise ("none": nothing raises).
UploadFailures == {"none", "read", "decode", "predict", "tempfile", "save_ply"}

\* How far upload_image gets: "pre_id" raised before uuid4(); "device" raised
\* the HTTPException of line 158; "predict" raised in predict_image (a None
\* predictor is not callable); "stored_gauss" raised opening the temp file,
\* after line 163; "tmp_created" raised in save_ply, the temp file left on
\* disk; "done" reached the return.
upload_stage(fail, dev, pred) ==
    IF fail \in {"read", "decode"} THEN "pre_id"
    ELSE IF dev = None THEN "device"
    ELSE IF pred = None \/ fail = "predict" THEN "predict"
    ELSE IF fail = "tempfile" THEN "stored_gauss"
    ELSE IF fail = "save_ply" THEN "tmp_created"
    ELSE "done"

\* upload_image without its try/except: only the explicit HTTPException is
\* answered, every other exception escapes (status 0).
upload_status_notry(stage) ==
    IF stage = "done" THEN 200 ELSE IF stage = "device" THEN 500 ELSE 0

\* The try/except of upload_image: every exception becomes HTTP 500.
upload_status(stage) ==
    IF stage = "done" THEN 200 ELSE 500

\* uuid4 that can hand out an id it handed out before.
uuid4_any(n) == 1 .. (n + 1)

\* uuid.uuid4(): the values the next call can return after n calls; an id is
\* opaque and never one returned before, so the n+1-th stands for it.
uuid4(n) == {n + 1}

\* gaussian_storage[session_id] = (gaussians, metadata)
store_gaussians(gs, sid, val) ==
    [k \in DOMAIN gs \cup {sid} |-> IF k = sid THEN val ELSE gs[k]]

\* The upload losing line 169: the path is never registered.
store_ply_skip(ps, sid, path) == ps

\* ply_storage[session_id] = str(ply_path)
store_ply(ps, sid, path) ==
    [k \in DOMAIN ps \cup {sid} |-> IF k = sid THEN path ELSE ps[k]]

\* The places where render_view can raise once past its two checks.
RenderFailures == {"none", "camera", "renderer", "save", "save_partial"}

\* render_view checking the GPU before the session.
render_view_gpufirst(sid, gs, cudaAvail, fail) ==
    IF ~cudaAvail THEN [status |-> 503, rendered |-> FALSE, created |-> FALSE]
    ELSE IF sid \notin DOMAIN gs THEN [status |-> 404, rendered |-> FALSE, created |-> FALSE]
    ELSE IF fail = "camera" THEN [status |-> 500, rendered |-> FALSE, created |-> FALSE]
    ELSE IF fail = "renderer" THEN [status |-> 500, rendered |-> TRUE, created |-> FALSE]
    ELSE IF fail = "save" THEN [status |-> 500, rendered |-> TRUE, created |-> FALSE]
    ELSE IF fail = "save_partial" THEN [status |-> 500, rendered |-> TRUE, created |-> TRUE]
    ELSE [status |-> 200, rendered |-> TRUE, created |-> TRUE]

\* render_view(): status, whether the renderer was invoked, whether a temp
\* file was written.
render_view(sid, gs, cudaAvail, fail) ==
    IF sid \notin DOMAIN gs THEN [status |-> 404, rendered |-> FALSE, created |-> FALSE]
    ELSE IF ~cudaAvail THEN [status |-> 503, rendered |-> FALSE, created |-> FALSE]
    ELSE IF fail = "camera" THEN [status |-> 500, rendered |-> FALSE, created |-> FALSE]
    ELSE IF fail = "renderer" THEN [status |-> 500, rendered |-> TRUE, created |-> FALSE]
    ELSE IF fail = "save" THEN [status |-> 500, rendered |-> TRUE, created |-> FALSE]
    ELSE IF fail = "save_partial" THEN [status |-> 500, rendered |-> TRUE, created |-> TRUE]
    ELSE [status |-> 200, rendered |-> TRUE, created |-> TRUE]

\* The places where generate_video can raise once past its two checks.
VideoFailures == {"none", "trajectory", "tempfile", "renderer", "writer"}

\* generate_video without the CUDA check of lines 325-329: without a GPU the
\* renderer is reached and raises.
generate_video_nogpucheck(sid, gs, cudaAvail, fail) ==
    IF sid \notin DOMAIN gs THEN [status |-> 404, rendered |-> FALSE, created |-> FALSE]
    ELSE IF fail \in {"trajectory", "tempfile"}
         THEN [status |-> 500, rendered |-> FALSE, created |-> FALSE]
    ELSE IF fail \in {"renderer", "writer"} \/ ~cudaAvail
         THEN [status |-> 500, rendered |-> TRUE, created |-> TRUE]
    ELSE [status |-> 200, rendered |-> TRUE, created |-> TRUE]

\* generate_video(): status, whether the renderer was invoked, whether the
\* temp .mp4 was created (line 363, before the renderer runs).
generate_video(sid, gs, cudaAvail, fail) ==
    IF sid \notin DOMAIN gs THEN [status |-> 404, rendered |-> FALSE, created |-> FALSE]
    ELSE IF ~cudaAvail THEN [status |-> 503, rendered |-> FALSE, created |-> FALSE]
    ELSE IF fail \in {"trajectory", "tempfile"}
         THEN [status |-> 500, rendered |-> FALSE, created |-> FALSE]
    ELSE IF fail \in {"renderer", "writer"}
         THEN [status |-> 500, rendered |-> TRUE, created |-> TRUE]
    ELSE [status |-> 200, rendered |-> TRUE, created |-> TRUE]

\* ------------------------------------------------------------------ state

\* The response record of a request.
Response(op, status, sid, o) ==
    [op |-> op, status |-> status, sid |-> sid,
     stage |-> o.stage, rendered |-> o.rendered, created |-> o.created,
     downloaded |-> o.downloaded, raised |-> o.raised,
     cuda_available |-> o.cuda_available]

Plain ==
    [stage |-> "", rendered |-> FALSE, created |-> FALSE, downloaded |-> FALSE,
     raised |-> FALSE, cuda_available |-> FALSE]

\* The module's globals after import (lines 47-53), on any machine.
Init ==
    /\ predictor = None
    /\ device = None
    /\ cuda \in BOOLEAN
    /\ mps \in BOOLEAN
    /\ startup = "pending"
    /\ gaussian_storage = << >>
    /\ ply_storage = << >>
    /\ issued = 0
    /\ disk = {}
    /\ pc = [r \in Reqs |-> "idle"]
    /\ uploads = << >>
    /\ last = Response("none", 0, 0, Plain)

\* A failed startup ends the process; nothing is served after it.
Running == startup # "failed"

InFlight == Cardinality({r \in Reqs : pc[r] = "reading"})

\* startup_event(): load_model(), whose exception aborts the startup.
StartupEvent(outcome) ==
    /\ Running
    /\ LET r == load_model(predictor, device, cuda, mps, outcome) IN
       /\ predictor' = r.predictor
       /\ device' = r.device
       /\ startup' = IF r.raised THEN "failed" ELSE "ok"
       /\ last' = Response("load_model", 0, 0,
                    [Plain EXCEPT !.downloaded = r.downloaded, !.raised = r.raised])
    /\ UNCHANGED <<cuda, mps, gaussian_storage, ply_storage, issued, disk, pc, uploads>>

\* GET /api/check
CheckSystem ==
    /\ Running
    /\ last' = Response("check", 200, 0,
                 [Plain EXCEPT !.cuda_available =
                                  check_system(cuda, mps, device).cuda_available])
    /\ UNCHANGED <<predictor, device, cuda, mps, startup, gaussian_storage,
                   ply_storage, issued, disk, pc, uploads>>

\* GET /api/ply/{session_id}
GetPly(sid) ==
    /\ Running
    /\ last' = Response("get_ply", get_ply(sid, ply_storage, disk), sid, Plain)
    /\ UNCHANGED <<predictor, device, cuda, mps, startup, gaussian_storage,
                   ply_storage, issued, disk, pc, uploads>>

\* POST /api/upload, up to the await of file.read() (line 142), where the
\* coroutine yields to the event loop.
UploadBegin(r) ==
    /\ Running
    /\ pc[r] = "idle"
    /\ issued + InFlight < MaxUploads
    /\ pc' = [pc EXCEPT ![r] = "reading"]
    /\ UNCHANGED <<predictor, device, cuda, mps, startup, gaussian_storage,
                   ply_storage, issued, disk, uploads, last>>

\* upload_image with a second await between line 163 and line 166: the
\* coroutine stores the Gaussians, yields, and exports when resumed.
UploadResume_yield(r, fail) ==
    /\ Running
    /\ \/ /\ pc[r] = "reading"
          /\ gaussian_storage' = store_gaussians(gaussian_storage, issued + 1, issued + 1)
          /\ issued' = issued + 1
          /\ pc' = [pc EXCEPT ![r] = "exporting"]
          /\ UNCHANGED <<ply_storage, disk, uploads, last>>
       \/ /\ pc[r] = "exporting"
          /\ \E sid \in DOMAIN gaussian_storage \ DOMAIN ply_storage :
               /\ ply_storage' = store_ply(ply_storage, sid, gaussian_storage[sid])
               /\ disk' = disk \cup {gaussian_storage[sid]}
               /\ uploads' = Append(uploads, [sid |-> sid, stage |-> "done",
                                 obj |-> gaussian_storage[sid], status |-> 200])
               /\ last' = Response("upload", 200, sid,
                            [Plain EXCEPT !.stage = "done", !.created = TRUE])
          /\ pc' = [pc EXCEPT ![r] = "idle"]
          /\ UNCHANGED <<gaussian_storage, issued>>
    /\ UNCHANGED <<predictor, device, cuda, mps, startup>>

\* POST /api/upload, from the return of file.read() to the response (lines
\* 142-182): no await in between, so one step of the event loop.
UploadResume(r, fail) ==
    /\ Running
    /\ pc[r] = "reading"
    /\ LET stage == upload_stage(fail, device, predictor)
           makesId == stage # "pre_id"
           stores == stage \in {"stored_gauss", "tmp_created", "done"}
           makesFile == stage \in {"tmp_created", "done"}
           obj == issued + 1
       IN
       /\ \E sid \in (IF makesId THEN uuid4(issued) ELSE {0}) :
            /\ gaussian_storage' =
                 IF stores THEN store_gaussians(gaussian_storage, sid, obj)
                 ELSE gaussian_storage
            /\ ply_storage' =
                 IF stage = "done" THEN store_ply(ply_storage, sid, obj)
                 ELSE ply_storage
            /\ uploads' =
                 IF makesId
                 THEN Append(uploads, [sid |-> sid, stage |-> stage, obj |-> obj,
                                       status |-> upload_status(stage)])
                 ELSE uploads
            /\ last' = Response("upload", upload_status(stage),
                         IF stage = "done" THEN sid ELSE 0,
                         [Plain EXCEPT !.stage = stage, !.created = makesFile])
       /\ issued' = IF makesId THEN issued + 1 ELSE issued
       /\ disk' = IF makesFile THEN disk \cup {obj} ELSE disk
    /\ pc' = [pc EXCEPT ![r] = "idle"]
    /\ UNCHANGED <<predictor, device, cuda, mps, startup>>

\* GET /api/render
RenderView(sid, fail) ==
    /\ Running
    /\ LET o == render_view(sid, gaussian_storage, cuda, fail) IN
       last' = Response("render", o.status, sid,
                 [Plain EXCEPT !.rendered = o.rendered, !.created = o.created])
    /\ UNCHANGED <<predictor, device, cuda, mps, startup, gaussian_storage,
                   ply_storage, issued, disk, pc, uploads>>

\* POST /api/generate-video
GenerateVideo(sid, fail) ==
    /\ Running
    /\ LET o == generate_video(sid, gaussian_storage, cuda, fail) IN
       last' = Response("video", o.status, sid,
                 [Plain EXCEPT !.rendered = o.rendered, !.created = o.created])
    /\ UNCHANGED <<predictor, device, cuda, mps, startup, gaussian_storage,
                   ply_storage, issued, disk, pc, uploads>>

\* A PLY temp file disappears from disk (nothing in the process removes one;
\* the temp directory is shared with the rest of the machine).
RemoveTmp(f) ==
    /\ Running
    /\ f \in disk
    /\ disk' = disk \ {f}
    /\ UNCHANGED <<predictor, device, cuda, mps, startup, gaussian_storage,
                   ply_storage, issued, pc, uploads, last>>

Next ==
    \/ \E outcome \in LoadOutcomes : StartupEvent(outcome)
    \/ CheckSystem
    \/ \E sid \in Ids : GetPly(sid)
    \/ \E r \in Reqs : UploadBegin(r)
    \/ \E r \in Reqs, fail \in UploadFailures : UploadResume(r, fail)
    \/ \E sid \in Ids, fail \in RenderFailures : RenderView(sid, fail)
    \/ \E sid \in Ids, fail \in VideoFailures : GenerateVideo(sid, fail)
    \/ \E f \in Paths : RemoveTmp(f)

Spec == Init /\ [][Next]_vars

TypeOK ==
    /\ predictor \in {None, "model"}
    /\ device \in {None, "cuda", "mps", "cpu"}
    /\ startup \in {"pending", "ok", "failed"}
    /\ DOMAIN gaussian_storage \subseteq Ids
    /\ DOMAIN ply_storage \subseteq Ids
    /\ issued \in 0 .. MaxUploads
    /\ disk \subseteq Paths
    /\ Len(uploads) <= MaxUploads

\* ------------------------------------------------------------------ claims

Done(i) == uploads[i].status = 200

\* C1: the session ids of successful uploads are pairwise different, each is
\* a key of ply_storage from the moment the response exists, and as long as
\* the file that upload exported is on disk GET /api/ply/{id} answers 200.
C1_FreshIdServedAtOnce ==
    /\ \A i, j \in 1 .. Len(uploads) :
         (i < j /\ Done(i) /\ Done(j)) => uploads[i].sid # uploads[j].sid
    /\ \A i \in 1 .. Len(uploads) :
         Done(i) =>
           /\ uploads[i].sid \in DOMAIN ply_storage
           /\ uploads[i].obj \in disk =>
                get_ply(uploads[i].sid, ply_storage, disk) = 200
    /\ (last.op = "upload" /\ last.status = 200) => last.sid \in DOMAIN ply_storage

\* Two uploads succeeded and the PLY of the second was fetched.
C1_Witness ==
    /\ \E i, j \in 1 .. Len(uploads) : i < j /\ Done(i) /\ Done(j)
         /\ last.sid = uploads[j].sid
    /\ last.op = "get_ply"
    /\ last.status = 200

\* C2: every key of gaussian_storage was stored by an upload that answered
\* 200, and render_view / generate_video answer 404 for every other id.
C2_KeysFromSuccessfulUploads ==
    /\ \A k \in DOMAIN gaussian_storage :
         \E i \in 1 .. Len(uploads) : uploads[i].sid = k /\ Done(i)
    /\ \A sid \in Ids \ DOMAIN gaussian_storage :
         /\ \A f \in RenderFailures :
              render_view(sid, gaussian_storage, cuda, f).status = 404
         /\ \A f \in VideoFailures :
              generate_video(sid, gaussian_storage, cuda, f).status = 404

\* C3: a render or video request for an id that is no key of gaussian_storage
\* is answered 404, with or without CUDA.
C3_SessionCheckedBeforeGpu ==
    /\ \A sid \in Ids \ DOMAIN gaussian_storage : \A c \in BOOLEAN :
         /\ \A f \in RenderFailures :
              render_view(sid, gaussian_storage, c, f).status = 404
         /\ \A f \in VideoFailures :
              generate_video(sid, gaussian_storage, c, f).status = 404
    /\ (last.op \in {"render", "video"} /\ last.sid \notin DOMAIN gaussian_storage)
         => last.status = 404

\* On a machine without CUDA that holds some session, a render for another,
\* unknown id was answered 404.
C3_Witness ==
    /\ ~cuda
    /\ DOMAIN gaussian_storage # {}
    /\ last.op = "render"
    /\ last.sid \notin DOMAIN gaussian_storage
    /\ last.status = 404

\* C4: without CUDA, a render or video request for a stored session is
\* answered 503, the renderer is not invoked and no temp file is created.
C4_NoGpuMeans503 ==
    /\ ~cuda =>
         \A sid \in DOMAIN gaussian_storage :
           /\ \A f \in RenderFailures :
                render_view(sid, gaussian_storage, cuda, f) =
                  [status |-> 503, rendered |-> FALSE, created |-> FALSE]
           /\ \A f \in VideoFailures :
                generate_video(sid, gaussian_storage, cuda, f) =
                  [status |-> 503, rendered |-> FALSE, created |-> FALSE]
    /\ (~cuda /\ last.op \in {"render", "video"} /\ last.sid \in DOMAIN gaussian_storage)
         => (last.status = 503 /\ ~last.rendered /\ ~last.created)

\* A video was requested for a stored session on a machine without CUDA.
C4_Witness ==
    /\ ~cuda
    /\ last.op = "video"
    /\ last.sid \in DOMAIN gaussian_storage
    /\ last.status = 503

\* C5: where /api/check reports cuda_available false, render and video
\* requests for a stored session answer 503; where it reports true they
\* never answer 503.
C5_CheckAgreesWith503 ==
    LET reported == check_system(cuda, mps, device).cuda_available IN
    /\ \A sid \in DOMAIN gaussian_storage :
         /\ \A f \in RenderFailures :
              reported <=> render_view(sid, gaussian_storage, cuda, f).status # 503
         /\ \A f \in VideoFailures :
              reported <=> generate_video(sid, gaussian_storage, cuda, f).status # 503
    /\ last.op = "check" => last.cuda_available = reported
    /\ (last.op \in {"render", "video"} /\ last.sid \in DOMAIN gaussian_storage)
         => (reported <=> last.status # 503)

\* /api/check answered cuda_available false on a Metal machine that holds a
\* session.
C5_Witness ==
    /\ mps
    /\ DOMAIN gaussian_storage # {}
    /\ last.op = "check"
    /\ ~last.cuda_available

\* C6: get_ply answers 200 exactly when the id is a key of ply_storage and
\* the stored file exists, and 404 in every other case.
C6_PlyLookup ==
    /\ [](\A sid \in Ids :
            LET there == sid \in DOMAIN ply_storage /\ ply_storage[sid] \in disk IN
            get_ply(sid, ply_storage, disk) = IF there THEN 200 ELSE 404)
    /\ [][ (last' # last /\ last'.op = "get_ply") =>
             last'.status =
               IF last'.sid \in DOMAIN ply_storage /\ ply_storage[last'.sid] \in disk
               THEN 200 ELSE 404 ]_vars

\* The PLY of a stored session was requested after its file had gone.
C6_Witness ==
    /\ last.op = "get_ply"
    /\ last.sid \in DOMAIN ply_storage
    /\ ply_storage[last.sid] \notin disk
    /\ last.status = 404

\* C7: an upload that fails at any step is answered 500; an upload is never
\* answered anything but 200 or 500 (0 stands for an escaped exception).
C7_UploadFailureIs500 ==
    /\ \A f \in UploadFailures \ {"none"} :
         upload_status(upload_stage(f, device, predictor)) = 500
    /\ last.op = "upload" =>
         /\ last.status \in {200, 500}
         /\ last.stage # "done" => last.status = 500

\* An upload failed in save_ply and was answered 500.
C7_Witness ==
    /\ last.op = "upload"
    /\ last.stage = "tmp_created"
    /\ last.status = 500

\* C8: a load_model call made while a model is resident downloads nothing
\* and leaves predictor and device as they were; a load_model call that
\* raises leaves predictor None and aborts the startup.
C8_LoadModelIdempotent ==
    [][ /\ (last'.op = "load_model" /\ last' # last /\ predictor # None) =>
             /\ predictor' = predictor
             /\ device' = device
             /\ ~last'.downloaded
             /\ ~last'.raised
        /\ (last'.op = "load_model" /\ last'.raised) =>
             /\ predictor' = None
             /\ startup' = "failed" ]_vars

\* load_model returned without downloading: a call with the model resident.
C8_Witness ==
    /\ last.op = "load_model"
    /\ ~last.downloaded
    /\ ~last.raised
    /\ predictor = "model"

\* C9: no step removes or changes an entry of either mapping; a step that
\* changes a mapping is an upload's, and the only key it adds is the session
\* id that upload drew.
C9_StorageAppendOnly ==
    [][ /\ \A k \in DOMAIN gaussian_storage :
             k \in DOMAIN gaussian_storage' /\ gaussian_storage'[k] = gaussian_storage[k]
        /\ \A k \in DOMAIN ply_storage :
             k \in DOMAIN ply_storage' /\ ply_storage'[k] = ply_storage[k]
        /\ (gaussian_storage' # gaussian_storage \/ ply_storage' # ply_storage) =>
             /\ last'.op = "upload"
             /\ Len(uploads') = Len(uploads) + 1
             /\ (DOMAIN gaussian_storage' \ DOMAIN gaussian_storage)
                  \subseteq {uploads'[Len(uploads')].sid}
             /\ (DOMAIN ply_storage' \ DOMAIN ply_storage)
                  \subseteq {uploads'[Len(uploads')].sid} ]_vars

\* Both mappings hold two sessions and a video request has failed since.
C9_Witness ==
    /\ Cardinality(DOMAIN gaussian_storage) >= 2
    /\ Cardinality(DOMAIN ply_storage) >= 2
    /\ last.op = "video"
    /\ last.status = 500

\* The writes of the finished uploads, applied one upload after the other in
\* the order they finished.
Wrote(h) == {i \in 1 .. Len(h) : h[i].stage \in {"stored_gauss", "tmp_created", "done"}}

LastWrite(h, S, k) == CHOOSE i \in S : h[i].sid = k /\ \A j \in S : h[j].sid = k => j <= i

SequentialGaussians(h) ==
    [k \in {h[i].sid : i \in Wrote(h)} |-> h[LastWrite(h, Wrote(h), k)].obj]

SequentialPly(h) ==
    LET S == {i \in 1 .. Len(h) : h[i].stage = "done"} IN
    [k \in {h[i].sid : i \in S} |-> h[LastWrite(h, S, k)].obj]

\* C10: whatever the interleaving, both mappings equal the result of running
\* the finished uploads one after the other, every successful upload's entries
\* are in place, and a key present in gaussian_storage but not in ply_storage
\* belongs to an upload that already finished (with 500), never to one still
\* running.
C10_UploadsSerializable ==
    /\ gaussian_storage = SequentialGaussians(uploads)
    /\ ply_storage = SequentialPly(uploads)
    /\ \A i \in 1 .. Len(uploads) :
         Done(i) => /\ uploads[i].sid \in DOMAIN gaussian_storage
                    /\ uploads[i].sid \in DOMAIN ply_storage
                    /\ gaussian_storage[uploads[i].sid] = uploads[i].obj
                    /\ ply_storage[uploads[i].sid] = uploads[i].obj
    /\ \A k \in DOMAIN gaussian_storage \ DOMAIN ply_storage :
         \E i \in 1 .. Len(uploads) : uploads[i].sid = k /\ uploads[i].status = 500

\* One upload finished and was rendered while another upload is suspended at
\* its read.
C10_Witness ==
    /\ InFlight >= 1
    /\ \E i \in 1 .. Len(uploads) : Done(i) /\ last.sid = uploads[i].sid
    /\ last.op = "render"
    /\ last.status \in {200, 503}

====
